---- MODULE Spec2Model ----
(***************************************************************************)
(* Model of gd-cli: the `shows` / `today` commands (runShowWorkflow), the  *)
(* archive client (getShowsForDate, normalizeArchiveDate,                  *)
(* detectRecordingType) and the grouping / ranking of recordings           *)
(* (groupShowsByDate), from src/src/commands/shows.ts.                     *)
(*                                                                         *)
(* JavaScript strings are sequences of one-character strings, so that      *)
(* includes / trim / regular expressions / slice are computed and not      *)
(* assumed.  An optional value (T | undefined) is <<>> when absent and     *)
(* <<v>> when present.  A JavaScript number is a record [k, v]: k is       *)
(* "num" (finite, v in hundredths), "nan", "inf" or "ninf".                *)
(***************************************************************************)
EXTENDS Integers, Sequences, FiniteSets, Bags, TLC

----------------------------------------------------------------------------
(* Bounds of the model *)

\* longest upstream docs array of the workflow specification
MaxDocs == 2
\* longest upstream docs array of the grouping specification
MaxGroupDocs == 3
\* longest upstream docs array of the date specification
MaxDateDocs == 2
\* longest upstream docs array of the recording-type specification
MaxTypeDocs == 1
\* longest upstream docs array of the rating specification
MaxRatingDocs == 1

----------------------------------------------------------------------------
(* Optional values and numbers *)

None == <<>>
Some(v) == <<v>>
IsSome(o) == o # <<>>
Get(o) == o[1]

Num(h) == [k |-> "num", v |-> h]
NaN == [k |-> "nan", v |-> 0]
PosInf == [k |-> "inf", v |-> 0]
NegInf == [k |-> "ninf", v |-> 0]

\* Number.isFinite
IsFinite(n) == n.k = "num"

\* the truthiness of a number: 0 and NaN are falsy
NumberTruthy(n) == n.k \in {"inf", "ninf"} \/ (n.k = "num" /\ n.v # 0)

\* a < b on numbers that are not NaN
NumLess(a, b) ==
  CASE a.k = "ninf" -> b.k # "ninf"
    [] a.k = "inf" -> FALSE
    [] OTHER -> b.k = "inf" \/ (b.k = "num" /\ a.v < b.v)

SetMin(S) == CHOOSE x \in S : \A y \in S : x <= y
SetMax(S) == CHOOSE x \in S : \A y \in S : x >= y

----------------------------------------------------------------------------
(* Strings *)

DigitChars == <<"0", "1", "2", "3", "4", "5", "6", "7", "8", "9">>
UpperChars ==
  <<"A", "B", "C", "D", "E", "F", "G", "H", "I", "J", "K", "L", "M",
    "N", "O", "P", "Q", "R", "S", "T", "U", "V", "W", "X", "Y", "Z">>
LowerChars ==
  <<"a", "b", "c", "d", "e", "f", "g", "h", "i", "j", "k", "l", "m",
    "n", "o", "p", "q", "r", "s", "t", "u", "v", "w", "x", "y", "z">>

DigitSet == {DigitChars[i] : i \in 1..10}
UpperSet == {UpperChars[i] : i \in 1..26}
LowerSet == {LowerChars[i] : i \in 1..26}
\* the lower-case form of every upper-case letter
LowerOf == [c \in UpperSet |-> LowerChars[CHOOSE i \in 1..26 : UpperChars[i] = c]]
\* the value of every decimal digit
ValueOf == [c \in DigitSet |-> (CHOOSE i \in 1..10 : DigitChars[i] = c) - 1]

IsDigit(c) == c \in DigitSet
DigitVal(c) == ValueOf[c]
IsUpper(c) == c \in UpperSet
IsLower(c) == c \in LowerSet
\* \w of a regular expression
IsWordChar(c) == c \in DigitSet \/ c \in UpperSet \/ c \in LowerSet \/ c = "_"
\* \s of a regular expression, and what trim() removes
IsSpace(c) == c \in {" ", "\t", "\n"}

ToLowerChar(c) == IF c \in UpperSet THEN LowerOf[c] ELSE c
\* String.prototype.toLowerCase
ToLowerCase(s) == [i \in 1..Len(s) |-> ToLowerChar(s[i])]

\* s.startsWith(sub, i - 1)
MatchAt(s, sub, i) ==
  /\ i >= 1
  /\ i + Len(sub) - 1 <= Len(s)
  /\ SubSeq(s, i, i + Len(sub) - 1) = sub

\* String.prototype.includes
Includes(s, sub) == \E i \in 1..(Len(s) - Len(sub) + 1) : MatchAt(s, sub, i)

\* String.prototype.endsWith
EndsWith(s, sub) == MatchAt(s, sub, Len(s) - Len(sub) + 1)

\* String.prototype.trim
Trim(s) ==
  LET keep == {i \in 1..Len(s) : ~IsSpace(s[i])}
  IN IF keep = {} THEN <<>> ELSE SubSeq(s, SetMin(keep), SetMax(keep))

\* String.prototype.slice(0, n)
Slice0(s, n) == SubSeq(s, 1, IF n < Len(s) THEN n ELSE Len(s))

\* \b between positions i - 1 and i of s
WordBoundaryAt(s, i) ==
  LET before == i - 1 >= 1 /\ i - 1 <= Len(s) /\ IsWordChar(s[i - 1])
      after == i >= 1 /\ i <= Len(s) /\ IsWordChar(s[i])
  IN before # after

\* /\bw\b/.test(s), for a w made of word characters
TestWord(s, w) ==
  \E i \in 1..(Len(s) - Len(w) + 1) :
    /\ MatchAt(s, w, i)
    /\ WordBoundaryAt(s, i)
    /\ WordBoundaryAt(s, i + Len(w))

\* the rank of a character in the collation of localeCompare: white space and
\* punctuation, then digits, then letters (a lower-case letter just before its
\* upper-case form)
CharRank(c) ==
  CASE IsDigit(c) -> 100 + DigitVal(c)
    [] IsLower(c) -> 200 + 2 * (CHOOSE i \in 1..26 : LowerChars[i] = c)
    [] IsUpper(c) -> 201 + 2 * (CHOOSE i \in 1..26 : UpperChars[i] = c)
    [] c = " " -> 1
    [] c = "_" -> 2
    [] c = "-" -> 3
    [] c = "." -> 4
    [] c = ":" -> 5
    [] c = "+" -> 6
    [] OTHER -> 7

\* a.localeCompare(b): negative, zero or positive
RECURSIVE LocaleCompare(_, _)
LocaleCompare(a, b) ==
  IF a = <<>> /\ b = <<>> THEN 0
  ELSE IF a = <<>> THEN -1
  ELSE IF b = <<>> THEN 1
  ELSE IF CharRank(Head(a)) # CharRank(Head(b))
       THEN CharRank(Head(a)) - CharRank(Head(b))
  ELSE LocaleCompare(Tail(a), Tail(b))

----------------------------------------------------------------------------
(* Numbers read from strings *)

\* the number of leading decimal digits of s
DigitPrefixLen(s) ==
  SetMax({n \in 0..Len(s) : \A i \in 1..n : IsDigit(s[i])})

\* the number of leading white-space characters of s
SpacePrefixLen(s) ==
  SetMax({n \in 0..Len(s) : \A i \in 1..n : IsSpace(s[i])})

\* the value of a string of decimal digits
RECURSIVE DigitsValue(_)
DigitsValue(s) ==
  IF s = <<>> THEN 0
  ELSE 10 * DigitsValue(SubSeq(s, 1, Len(s) - 1)) + DigitVal(s[Len(s)])

\* the first two fractional digits, in hundredths (the ratings of the model
\* carry at most two fractional digits)
FractionValue(s) ==
  (IF Len(s) >= 1 THEN 10 * DigitVal(s[1]) ELSE 0)
  + (IF Len(s) >= 2 THEN DigitVal(s[2]) ELSE 0)

\* Number.parseFloat(s): leading white space, a sign, then Infinity or
\* digits [. digits]; anything after is ignored; no digit at all is NaN
ParseFloat(s) ==
  LET t == SubSeq(s, SpacePrefixLen(s) + 1, Len(s))
      signed == t # <<>> /\ t[1] \in {"+", "-"}
      neg == signed /\ t[1] = "-"
      u == IF signed THEN Tail(t) ELSE t
      ni == DigitPrefixLen(u)
      afterInt == SubSeq(u, ni + 1, Len(u))
      hasDot == afterInt # <<>> /\ afterInt[1] = "."
      fracAll == IF hasDot THEN Tail(afterInt) ELSE <<>>
      nf == DigitPrefixLen(fracAll)
      mag == 100 * DigitsValue(SubSeq(u, 1, ni)) + FractionValue(SubSeq(fracAll, 1, nf))
  IN IF MatchAt(u, <<"I", "n", "f", "i", "n", "i", "t", "y">>, 1)
     THEN (IF neg THEN NegInf ELSE PosInf)
     ELSE IF ni = 0 /\ nf = 0 THEN NaN
     ELSE Num(IF neg THEN 0 - mag ELSE mag)

\* Number.parseInt(s, 10): leading white space, a sign, then digits; anything
\* after is ignored; no digit at all is NaN
ParseInt(s) ==
  LET t == SubSeq(s, SpacePrefixLen(s) + 1, Len(s))
      signed == t # <<>> /\ t[1] \in {"+", "-"}
      neg == signed /\ t[1] = "-"
      u == IF signed THEN Tail(t) ELSE t
      ni == DigitPrefixLen(u)
      mag == 100 * DigitsValue(SubSeq(u, 1, ni))
  IN IF ni = 0 THEN NaN ELSE Num(IF neg THEN 0 - mag ELSE mag)

----------------------------------------------------------------------------
(* Calendar dates.  A Date is [year, month, day] in UTC, month 1..12. *)

IsLeapYear(y) == (y % 4 = 0 /\ y % 100 # 0) \/ y % 400 = 0

DaysInMonth(y, m) ==
  CASE m \in {4, 6, 9, 11} -> 30
    [] m = 2 -> (IF IsLeapYear(y) THEN 29 ELSE 28)
    [] OTHER -> 31

IsCalendarDate(y, m, d) == m \in 1..12 /\ d >= 1 /\ d <= DaysInMonth(y, m)

\* String(n).padStart(w, "0") for 0 <= n < 10^w
RECURSIVE PadStart(_, _)
PadStart(n, w) ==
  IF w = 0 THEN <<>> ELSE PadStart(n \div 10, w - 1) \o <<DigitChars[(n % 10) + 1]>>

\* \d{4}-\d{2}-\d{2} matched against the whole of s
IsDatePattern(s) ==
  /\ Len(s) = 10
  /\ \A i \in {1, 2, 3, 4, 6, 7, 9, 10} : IsDigit(s[i])
  /\ s[5] = "-"
  /\ s[8] = "-"

\* the year, month and day that a \d{4}-\d{2}-\d{2} string names
DateFields(s) ==
  [year |-> DigitsValue(SubSeq(s, 1, 4)),
   month |-> DigitsValue(SubSeq(s, 6, 7)),
   day |-> DigitsValue(SubSeq(s, 9, 10))]

\* a YYYY-MM-DD string that names a day of the calendar
IsValidDateString(s) ==
  /\ IsDatePattern(s)
  /\ IsCalendarDate(DateFields(s).year, DateFields(s).month, DateFields(s).day)

\* parseDateArgument: the format, then the round trip through Date.UTC, which
\* rolls an out-of-range month or day over into the next one and maps the
\* years 0..99 to 1900..1999, so that the comparison of the fields fails
parseDateArgument(value) ==
  IF ~IsDatePattern(value) THEN [ok |-> FALSE, error |-> "Invalid date format", date |-> None]
  ELSE LET f == DateFields(value)
       IN IF f.year <= 99 \/ ~IsCalendarDate(f.year, f.month, f.day)
          THEN [ok |-> FALSE, error |-> "Invalid date provided", date |-> None]
          ELSE [ok |-> TRUE, error |-> "", date |-> Some(f)]

\* GratefulDeadArchiveClient.toMonthDay
toMonthDay(date) ==
  [month |-> PadStart(date.month, 2), day |-> PadStart(date.day, 2)]

\* new Date(t).toISOString(): the date part and the "T" that follows it; a
\* year outside 0..9999 is written with a sign and six digits
ToISOString(d) ==
  (IF d.year >= 0 /\ d.year <= 9999
   THEN PadStart(d.year, 4)
   ELSE <<(IF d.year < 0 THEN "-" ELSE "+")>>
        \o PadStart(IF d.year < 0 THEN 0 - d.year ELSE d.year, 6))
  \o <<"-">> \o PadStart(d.month, 2) \o <<"-">> \o PadStart(d.day, 2) \o <<"T">>

\* the expanded-year date form of the ECMAScript date-time string format,
\* +YYYYYY-MM-DD, which every implementation of Date.parse reads
IsExpandedYearDate(s) ==
  /\ Len(s) = 13
  /\ s[1] = "+"
  /\ \A i \in {2, 3, 4, 5, 6, 7, 9, 10, 12, 13} : IsDigit(s[i])
  /\ s[8] = "-"
  /\ s[11] = "-"
  /\ IsCalendarDate(DigitsValue(SubSeq(s, 2, 7)), DigitsValue(SubSeq(s, 9, 10)),
                    DigitsValue(SubSeq(s, 12, 13)))

\* the strings whose Date.parse is left to the implementation
IsHostParsed(s) == ~IsExpandedYearDate(s)

\* what an implementation may answer for such a string: NaN, or a time whose
\* UTC day is one of these (a local-time reading may fall on the day before)
HostParseOutcomes ==
  {None,
   Some([year |-> 1977, month |-> 5, day |-> 8]),
   Some([year |-> 1977, month |-> 5, day |-> 7])}

\* Date.parse(s), None for NaN; host answers for the implementation-defined
\* strings
DateParse(s, host) ==
  IF IsExpandedYearDate(s)
  THEN Some([year |-> DigitsValue(SubSeq(s, 2, 7)),
             month |-> DigitsValue(SubSeq(s, 9, 10)),
             day |-> DigitsValue(SubSeq(s, 12, 13))])
  ELSE host[s]

UnknownDate == <<"U", "n", "k", "n", "o", "w", "n", " ", "d", "a", "t", "e">>

\* /^(\d{4}-\d{2}-\d{2})/.exec(s) finds a match
MatchesDatePrefix(s) == Len(s) >= 10 /\ IsDatePattern(SubSeq(s, 1, 10))

\* the raw dates for which normalizeArchiveDate reaches Date.parse
ReachesDateParse(rawDate) ==
  /\ IsSome(rawDate)
  /\ Get(rawDate) # <<>>
  /\ ~MatchesDatePrefix(Trim(Get(rawDate)))

\* GratefulDeadArchiveClient.normalizeArchiveDate
normalizeArchiveDate(rawDate, host) ==
  IF ~IsSome(rawDate) \/ Get(rawDate) = <<>> THEN UnknownDate
  ELSE LET trimmed == Trim(Get(rawDate))
       IN IF MatchesDatePrefix(trimmed) THEN SubSeq(trimmed, 1, 10)
          ELSE LET parsed == DateParse(trimmed, host)
               IN IF ~IsSome(parsed) THEN trimmed
                  ELSE Slice0(ToISOString(Get(parsed)), 10)

----------------------------------------------------------------------------
(* The archive client: one upstream doc to one ArchiveShow *)

\* an upstream doc is [identifier, title, date, source, avg_rating,
\* num_reviews]: identifier a string, the others optional strings; avg_rating
\* and num_reviews hold String(value), the text that the code parses

MarkerMtx == <<"m", "t", "x">>
MarkerMatrix == <<"m", "a", "t", "r", "i", "x">>
MarkerSbd == <<"s", "b", "d">>
MarkerSoundboard == <<"s", "o", "u", "n", "d", "b", "o", "a", "r", "d">>
MarkerAud == <<"a", "u", "d">>
MarkerAudience == <<"a", "u", "d", "i", "e", "n", "c", "e">>

\* the segments that detectRecordingType scans: identifier, title and source,
\* those that are present and not blank, in lower case
TypeSegments(identifier, title, source) ==
  LET all == <<Some(identifier), Some(title), source>>
      Kept(o) == IsSome(o) /\ Get(o) # <<>> /\ Trim(Get(o)) # <<>>
      kept == SelectSeq(all, Kept)
  IN [i \in 1..Len(kept) |-> ToLowerCase(Get(kept[i]))]

\* segments.some(segment => /\bshort\b/.test(segment) || segment.includes(long))
SomeSegment(segments, short, long) ==
  \E i \in 1..Len(segments) :
    TestWord(segments[i], short) \/ Includes(segments[i], long)

\* a plausible slip: the soundboard test placed before the matrix test
detectRecordingTypeSbdFirst(identifier, title, source) ==
  LET segments == TypeSegments(identifier, title, source)
  IN IF segments = <<>> THEN None
     ELSE IF SomeSegment(segments, MarkerSbd, MarkerSoundboard) THEN Some("SBD")
     ELSE IF SomeSegment(segments, MarkerMtx, MarkerMatrix) THEN Some("MTX")
     ELSE IF SomeSegment(segments, MarkerAud, MarkerAudience) THEN Some("AUD")
     ELSE None

\* GratefulDeadArchiveClient.detectRecordingType
detectRecordingType(identifier, title, source) ==
  LET segments == TypeSegments(identifier, title, source)
  IN IF segments = <<>> THEN None
     ELSE IF SomeSegment(segments, MarkerMtx, MarkerMatrix) THEN Some("MTX")
     ELSE IF SomeSegment(segments, MarkerSbd, MarkerSoundboard) THEN Some("SBD")
     ELSE IF SomeSegment(segments, MarkerAud, MarkerAudience) THEN Some("AUD")
     ELSE None

\* doc.date ?? ""
DocDate(doc) == IF IsSome(doc.date) THEN Get(doc.date) ELSE <<>>

\* `-${month}-${day}`
DateSuffix(month, day) == <<"-">> \o month \o <<"-">> \o day

\* the filter of getShowsForDate
KeepsDoc(doc, month, day) == Includes(DocDate(doc), DateSuffix(month, day))

\* avgRating of the mapped show: parseFloat(String(avg_rating)) || undefined
MapAvgRating(raw) ==
  IF ~IsSome(raw) THEN None
  ELSE IF NumberTruthy(ParseFloat(Get(raw))) THEN Some(ParseFloat(Get(raw)))
  ELSE None

\* numRatings of the mapped show: parseInt(String(num_reviews), 10)
MapNumRatings(raw) ==
  IF ~IsSome(raw) THEN None ELSE Some(ParseInt(Get(raw)))

\* the map of getShowsForDate (venue, coverage and url are carried along
\* unread by everything modelled here, and left out)
MapDoc(doc, host) ==
  LET title == IF IsSome(doc.title) THEN Get(doc.title) ELSE doc.identifier
  IN [identifier |-> doc.identifier,
      title |-> title,
      date |-> normalizeArchiveDate(doc.date, host),
      source |-> doc.source,
      avgRating |-> MapAvgRating(doc.avg_rating),
      numRatings |-> MapNumRatings(doc.num_reviews),
      recordingType |-> detectRecordingType(doc.identifier, title, doc.source)]

\* GratefulDeadArchiveClient.getShowsForDate, past the checks of the response:
\* docs.filter(...).map(...)
getShowsForDate(docs, date, host) ==
  LET md == toMonthDay(date)
      Keep(doc) == KeepsDoc(doc, md.month, md.day)
      kept == SelectSeq(docs, Keep)
  IN [i \in 1..Len(kept) |-> MapDoc(kept[i], host)]

\* the strings of a docs array that normalizeArchiveDate hands to an
\* implementation-defined Date.parse
HostParsedDates(docs, date) ==
  LET md == toMonthDay(date)
  IN {Trim(Get(docs[i].date)) : i \in
        {j \in 1..Len(docs) :
           /\ KeepsDoc(docs[j], md.month, md.day)
           /\ ReachesDateParse(docs[j].date)
           /\ IsHostParsed(Trim(Get(docs[j].date)))}}

----------------------------------------------------------------------------
(* Grouping and ranking *)

\* the rating that the comparator uses: avgRating when it is a finite number,
\* Number.NEGATIVE_INFINITY otherwise
SortRating(show) ==
  IF IsSome(show.avgRating) /\ IsFinite(Get(show.avgRating))
  THEN Get(show.avgRating)
  ELSE NegInf

\* a plausible slip: ratingA - ratingB, the lowest rating first
CompareShowsAscending(a, b) ==
  IF SortRating(a) # SortRating(b)
  THEN (IF NumLess(SortRating(a), SortRating(b)) THEN -1 ELSE 1)
  ELSE LocaleCompare(a.title, b.title)

\* the comparator of groupedShows.sort: negative when a goes first
CompareShows(a, b) ==
  IF SortRating(a) # SortRating(b)
  THEN (IF NumLess(SortRating(a), SortRating(b)) THEN 1 ELSE -1)
  ELSE LocaleCompare(a.title, b.title)

\* x put into the sorted s before the first element that it precedes
InsertShow(s, x) ==
  LET after == {i \in 1..Len(s) : CompareShows(x, s[i]) < 0}
      at == IF after = {} THEN Len(s) + 1 ELSE SetMin(after)
  IN SubSeq(s, 1, at - 1) \o <<x>> \o SubSeq(s, at, Len(s))

\* Array.prototype.sort with CompareShows: a stable sort
RECURSIVE SortShows(_)
SortShows(s) ==
  IF s = <<>> THEN <<>>
  ELSE InsertShow(SortShows(SubSeq(s, 1, Len(s) - 1)), s[Len(s)])

\* the comparator of the sort of the groups
CompareGroups(a, b) == LocaleCompare(a.date, b.date)

InsertGroup(s, x) ==
  LET after == {i \in 1..Len(s) : CompareGroups(x, s[i]) < 0}
      at == IF after = {} THEN Len(s) + 1 ELSE SetMin(after)
  IN SubSeq(s, 1, at - 1) \o <<x>> \o SubSeq(s, at, Len(s))

\* Array.prototype.sort with CompareGroups: a stable sort
RECURSIVE SortGroups(_)
SortGroups(s) ==
  IF s = <<>> THEN <<>>
  ELSE InsertGroup(SortGroups(SubSeq(s, 1, Len(s) - 1)), s[Len(s)])

\* the keys of the Map, in the order of their insertion
RECURSIVE GroupKeys(_)
GroupKeys(shows) ==
  IF shows = <<>> THEN <<>>
  ELSE LET front == GroupKeys(SubSeq(shows, 1, Len(shows) - 1))
           date == shows[Len(shows)].date
       IN IF \E i \in 1..Len(front) : front[i] = date
          THEN front
          ELSE Append(front, date)

\* a plausible slip: the groups left in the order of the Map
groupShowsByDateUnsorted(shows) ==
  LET keys == GroupKeys(shows)
      Members(date) == LET Same(show) == show.date = date IN SelectSeq(shows, Same)
  IN [i \in 1..Len(keys) |-> [date |-> keys[i], shows |-> SortShows(Members(keys[i]))]]

\* groupShowsByDate
groupShowsByDate(shows) ==
  LET keys == GroupKeys(shows)
      Members(date) == LET Same(show) == show.date = date IN SelectSeq(shows, Same)
  IN SortGroups([i \in 1..Len(keys) |->
                   [date |-> keys[i], shows |-> SortShows(Members(keys[i]))]])

----------------------------------------------------------------------------
(* The selection workflow *)

CancelToken == <<"_", "_", "c", "a", "n", "c", "e", "l", "_", "_">>

\* a plausible slip: the cancel token looked up among the groups, with the
\* first group as the fallback
promptForDateSelectionNoCancel(groups, selectedDate) ==
  LET found == {i \in 1..Len(groups) : groups[i].date = selectedDate}
  IN IF groups = <<>> THEN None
     ELSE IF found = {} THEN Some(groups[1])
     ELSE Some(groups[SetMin(found)])

\* promptForDateSelection, past the prompt: the group that the answer names,
\* None for null
promptForDateSelection(groups, selectedDate) ==
  IF selectedDate = CancelToken THEN None
  ELSE LET found == {i \in 1..Len(groups) : groups[i].date = selectedDate}
       IN IF found = {} THEN None ELSE Some(groups[SetMin(found)])

\* promptForShowSelection, past the prompt: the show that the answer names,
\* None for { kind: "cancel" }
promptForShowSelection(group, selectedId) ==
  IF selectedId = CancelToken THEN None
  ELSE LET found == {i \in 1..Len(group.shows) : group.shows[i].identifier = selectedId}
       IN IF found = {} THEN None ELSE Some(group.shows[SetMin(found)])

\* the values of the choices of the date prompt
DateChoices(groups) == {groups[i].date : i \in 1..Len(groups)} \cup {CancelToken}

\* the values of the choices of the recording prompt
ShowChoices(group) ==
  {group.shows[i].identifier : i \in 1..Len(group.shows)} \cup {CancelToken}

\* a plausible slip: the empty result looked at on the automatic path only
WorkflowBranchEmptyUnchecked(shows, isAuto, inputIsTTY, outputIsTTY) ==
  IF isAuto \/ ~inputIsTTY \/ ~outputIsTTY
  THEN (IF Len(shows) = 0 THEN "noShows" ELSE "auto")
  ELSE "prompt"

\* the branch of runShowWorkflow taken once the fetch has answered
WorkflowBranch(shows, isAuto, inputIsTTY, outputIsTTY) ==
  IF Len(shows) = 0 THEN "noShows"
  ELSE IF isAuto \/ ~inputIsTTY \/ ~outputIsTTY THEN "auto"
  ELSE "prompt"

\* a plausible slip: the top of the ranking of the first group
AutoSelectionTopRanked(shows, groups) == groups[1].shows[1]

\* the show that the auto branch opens: shows[0]
AutoSelection(shows, groups) == shows[1]

\* the launcher of openShowInBrowser
LauncherCommand(platform) ==
  CASE platform = "darwin" -> "open"
    [] platform = "win32" -> "cmd"
    [] OTHER -> "xdg-open"

\* a plausible slip: every launcher is held to exit code 0
CloseResolvesZeroOnly(code, launcher) == code = Some(0)

\* the close handler of openShowInBrowser resolves; the code of a close event
\* is a number, or null (None) when a signal ended the child
CloseResolves(code, launcher) == code = Some(0) \/ launcher = "cmd"

\* the reason a promise of openShowInBrowser is rejected with: none while it is
\* not rejected
NoError == [kind |-> "none", code |-> None]

\* the error of the child's "error" event, handed to reject as it is
SpawnError == [kind |-> "spawn", code |-> None]

\* new Error(`Failed to open browser (exit code ${code})`)
ExitError(code) == [kind |-> "exit", code |-> code]

\* the codes of a close event: after a failed spawn the code is the negative
\* errno of the failure; otherwise it is the launcher's exit code, or null
CloseCodes(afterError) ==
  IF afterError THEN {Some(-2)} ELSE {Some(0), Some(1), Some(3), None}

\* a plausible slip: the catch reports the error and leaves the exit code
NoFailureExitCode == 1 - 1

\* process.exitCode as the catch of the command's action sets it
FailureExitCode == 1

VARIABLES
  command,        \* "shows" or "today"
  dateArg,        \* the <date> argument of `shows`
  today,          \* new Date() of `today`
  auto,           \* options.auto
  stdinIsTTY,     \* input.isTTY
  stdoutIsTTY,    \* output.isTTY
  platform,       \* process.platform
  response,       \* what the archive answers: [kind, docs]
  pc,             \* where the invocation stands
  targetDate,     \* the Date that the fetch is for, None until known
  shows,          \* the local `shows` of runShowWorkflow
  groupedShows,   \* the local `groupedShows`
  selectedGroup,  \* the local `selectedGroup`, None until chosen
  openTarget,     \* the show handed to openShow, None until then
  openPromise,    \* the promise of openShowInBrowser
  openError,      \* what the promise of openShowInBrowser is rejected with
  errorEmitted,   \* the child has emitted "error"
  closeEmitted,   \* the child has emitted "close"
  closeCode,      \* the code of the "close" event, None before it and for null
  fetchCalls,     \* calls of fetchImpl
  groupCalls,     \* calls of groupShowsByDate
  datePrompts,    \* date prompts shown
  showPrompts,    \* recording prompts shown
  openCalls,      \* calls of spawn
  exitCode,       \* process.exitCode, 0 while unset
  outcome,        \* what the run has reported
  failure,        \* where an error was thrown: "none" when none was
  cancelledAt     \* the prompt at which Cancel was chosen: "none" when none

vars ==
  <<command, dateArg, today, auto, stdinIsTTY, stdoutIsTTY, platform, response,
    pc, targetDate, shows, groupedShows, selectedGroup, openTarget, openPromise,
    openError, errorEmitted, closeEmitted, closeCode, fetchCalls, groupCalls,
    datePrompts, showPrompts, openCalls, exitCode, outcome, failure,
    cancelledAt>>

inputs ==
  <<command, dateArg, today, auto, stdinIsTTY, stdoutIsTTY, platform, response>>

----------------------------------------------------------------------------
(* The inputs of the model *)

Doc(id, title, date, source, rating, reviews) ==
  [identifier |-> id, title |-> title, date |-> date, source |-> source,
   avg_rating |-> rating, num_reviews |-> reviews]

\* docs of the workflow specification: two show dates, with rated, unrated and
\* equally rated recordings, one doc of another day and one of 29 February
WorkflowDocs ==
  {Doc(<<"x", "1">>, Some(<<"b">>), Some(<<"1", "9", "7", "7", "-", "0", "5", "-", "0", "8">>), None, Some(<<"4", ".", "8">>), Some(<<"1", "2">>)),
   Doc(<<"x", "2">>, Some(<<"a">>), Some(<<"1", "9", "7", "7", "-", "0", "5", "-", "0", "8">>), None, Some(<<"4", ".", "9">>), None),
   Doc(<<"x", "3">>, Some(<<"a">>), Some(<<"1", "9", "7", "7", "-", "0", "5", "-", "0", "8">>), Some(<<"s", "b", "d">>), Some(<<"0">>), None),
   Doc(<<"x", "4">>, None, Some(<<"1", "9", "9", "0", "-", "0", "5", "-", "0", "8">>), None, Some(<<"4", ".", "9">>), Some(<<"3">>)),
   Doc(<<"x", "5">>, Some(<<"a">>), Some(<<"1", "9", "7", "7", "-", "0", "5", "-", "0", "9">>), None, Some(<<"5">>), None),
   Doc(<<"x", "6">>, Some(<<"a">>), Some(<<"1", "9", "7", "7", "-", "0", "5", "-", "0", "8">>), Some(<<"a", "u", "d">>), Some(<<"4", ".", "8">>), Some(<<"0">>)),
   Doc(<<"x", "7">>, Some(<<"c">>), Some(<<"1", "9", "7", "2", "-", "0", "2", "-", "2", "9">>), None, Some(<<"4", ".", "8">>), None)}

\* raw upstream dates of the date specification
RawDates ==
  {None,
   Some(<<"1", "9", "7", "7", "-", "0", "5", "-", "0", "8">>),
   Some(<<"1", "9", "7", "7", "-", "0", "5", "-", "0", "8", "T", "0", "0", ":", "0", "0", ":", "0", "0", "Z">>),
   Some(<<"1", "9", "7", "7", "-", "0", "5", "-", "0", "9">>),
   Some(<<" ", "1", "9", "7", "7", "-", "0", "5", "-", "0", "8">>),
   Some(<<"1", "9", "8", "0", "-", "1", "1", "-", "0", "5", "-", "0", "8">>),
   Some(<<"+", "0", "0", "1", "9", "7", "7", "-", "0", "5", "-", "0", "8">>),
   Some(<<"c", ".", "1", "9", "7", "7", "-", "0", "5", "-", "0", "8">>),
   Some(<<"1", "9", "7", "7", "-", "0", "2", "-", "2", "9">>),
   Some(<<>>)}

DateDocs == {Doc(<<"x", "1">>, None, d, None, None, None) : d \in RawDates}

TypeIdentifiers ==
  {<<"g", "d", ".", "s", "b", "d", ".", "m", "t", "x">>,
   <<"g", "d", "_", "s", "b", "d">>,
   <<"G", "D", ".", "A", "U", "D">>,
   <<"g", "d">>}

TypeTitles ==
  {None,
   Some(<<"S", "o", "u", "n", "d", "b", "o", "a", "r", "d">>),
   Some(<<"m", "a", "t", "r", "i", "x">>),
   Some(<<" ">>)}

TypeSources ==
  {None,
   Some(<<"S", "B", "D">>),
   Some(<<"a", "u", "d", "i", "e", "n", "c", "e">>)}

\* docs of the recording-type specification
TypeDocs ==
  {Doc(id, title, Some(<<"1", "9", "7", "7", "-", "0", "5", "-", "0", "8">>), source, None, None) :
     id \in TypeIdentifiers, title \in TypeTitles, source \in TypeSources}

\* String(doc.avg_rating): absent, a rating, zero, text, the empty string, a
\* rating followed by text
RawRatings ==
  {None,
   Some(<<"4", ".", "8">>),
   Some(<<"0">>),
   Some(<<"n", "o", "n", "e">>),
   Some(<<>>),
   Some(<<"4", ".", "8", " ", "a", "v", "g">>)}

\* String(doc.num_reviews): absent, a count, zero, text, the empty string, a
\* count followed by text
RawReviews ==
  {None,
   Some(<<"1", "2">>),
   Some(<<"0">>),
   Some(<<"n", "/", "a">>),
   Some(<<>>),
   Some(<<"1", "2", " ", "r", "e", "v", "i", "e", "w", "s">>)}

\* docs of the rating specification
RatingDocs ==
  {Doc(<<"x", "1">>, None, Some(<<"1", "9", "7", "7", "-", "0", "5", "-", "0", "8">>), None, rating, reviews) :
     rating \in RawRatings, reviews \in RawReviews}

\* <date> arguments: two days, a day that no calendar has, a month and day only
DateArgs ==
  {<<"1", "9", "7", "7", "-", "0", "5", "-", "0", "8">>,
   <<"1", "9", "7", "2", "-", "0", "2", "-", "2", "9">>,
   <<"1", "9", "7", "7", "-", "0", "2", "-", "3", "0">>,
   <<"0", "5", "-", "0", "8">>}

\* one day and a month and day only
FewDateArgs ==
  {<<"1", "9", "7", "7", "-", "0", "5", "-", "0", "8">>,
   <<"0", "5", "-", "0", "8">>}

\* one day
OneDateArg == {<<"1", "9", "7", "7", "-", "0", "5", "-", "0", "8">>}

Todays == {[year |-> 2026, month |-> 5, day |-> 8]}

Platforms == {"darwin", "win32", "linux"}

\* the sequences over S of length at most n
SeqsUpTo(S, n) == UNION {[1..k -> S] : k \in 0..n}

\* what the archive may answer: a transport error, a status that is not ok, an
\* error field, no response wrapper, a wrapper without docs, docs
Responses(docSet, maxLen) ==
  {[kind |-> k, docs |-> <<>>] :
     k \in {"transportError", "badStatus", "errorField", "noWrapper", "noDocs"}}
  \cup {[kind |-> "docs", docs |-> d] : d \in SeqsUpTo(docSet, maxLen)}

ResponseFails == response.kind \in {"transportError", "badStatus", "errorField", "noWrapper"}

\* payload.response.docs ?? []
ResponseDocs == IF response.kind = "docs" THEN response.docs ELSE <<>>

InitWith(docSet, maxLen, dateArgs, platforms, terminals) ==
  /\ command \in {"shows", "today"}
  /\ dateArg \in (IF command = "shows" THEN dateArgs ELSE {<<>>})
  /\ today \in Todays
  /\ auto \in BOOLEAN
  /\ stdinIsTTY \in terminals
  /\ stdoutIsTTY \in terminals
  /\ platform \in platforms
  /\ response \in Responses(docSet, maxLen)
  /\ pc = "idle"
  /\ targetDate = None
  /\ shows = <<>>
  /\ groupedShows = <<>>
  /\ selectedGroup = None
  /\ openTarget = None
  /\ openPromise = "none"
  /\ openError = NoError
  /\ errorEmitted = FALSE
  /\ closeEmitted = FALSE
  /\ closeCode = None
  /\ fetchCalls = 0
  /\ groupCalls = 0
  /\ datePrompts = 0
  /\ showPrompts = 0
  /\ openCalls = 0
  /\ exitCode = 0
  /\ outcome = "none"
  /\ failure = "none"
  /\ cancelledAt = "none"

Init == InitWith(WorkflowDocs, MaxDocs, DateArgs, Platforms, BOOLEAN)

----------------------------------------------------------------------------
(* The actions: one per stretch of code between two awaits *)

\* an error thrown at `where` reaches the catch of the command's action, which
\* reports it and sets process.exitCode
Throw(where) ==
  /\ failure' = where
  /\ exitCode' = FailureExitCode
  /\ outcome' = "error"
  /\ pc' = "done"

\* runShowWorkflow up to its first await: getShowsForDate calls fetchImpl
StartFetch(date) ==
  /\ targetDate' = Some(date)
  /\ fetchCalls' = fetchCalls + 1
  /\ pc' = "fetching"
  /\ UNCHANGED <<exitCode, outcome, failure>>

\* the action of `shows <date>`: parseDateArgument, then runShowWorkflow
ShowsCommand ==
  /\ pc = "idle"
  /\ command = "shows"
  /\ LET parsed == parseDateArgument(dateArg)
     IN IF parsed.ok
        THEN StartFetch(Get(parsed.date))
        ELSE Throw("validation") /\ UNCHANGED <<targetDate, fetchCalls>>
  /\ UNCHANGED <<inputs, shows, groupedShows, selectedGroup, openTarget,
                 openPromise, openError, errorEmitted, closeEmitted, closeCode, groupCalls,
                 datePrompts, showPrompts, openCalls, cancelledAt>>

\* the action of `today`: runShowWorkflow with getShowsForToday
TodayCommand ==
  /\ pc = "idle"
  /\ command = "today"
  /\ StartFetch(today)
  /\ UNCHANGED <<inputs, shows, groupedShows, selectedGroup, openTarget,
                 openPromise, openError, errorEmitted, closeEmitted, closeCode, groupCalls,
                 datePrompts, showPrompts, openCalls, cancelledAt>>

\* the fetch fails: fetchImpl rejects, or getShowsForDate throws on the
\* status, on the error field or on the missing wrapper; runShowWorkflow
\* rethrows
FetchFails ==
  /\ pc = "fetching"
  /\ ResponseFails
  /\ Throw("fetch")
  /\ UNCHANGED <<inputs, targetDate, shows, groupedShows, selectedGroup,
                 openTarget, openPromise, openError, errorEmitted, closeEmitted, closeCode,
                 fetchCalls, groupCalls, datePrompts, showPrompts, openCalls,
                 cancelledAt>>

\* the fetch answers: shows and groupedShows are set
Fetched(host) ==
  /\ shows' = getShowsForDate(ResponseDocs, Get(targetDate), host)
  /\ groupedShows' = groupShowsByDate(shows')
  /\ groupCalls' = groupCalls + 1

\* openShow: openShowInBrowser spawns the launcher and waits for its events
OpenShow(show) ==
  /\ openTarget' = Some(show)
  /\ openCalls' = openCalls + 1
  /\ openPromise' = "pending"
  /\ openError' = NoError
  /\ pc' = "opening"

\* the fetch answers with no show of that day
FetchedNoShows ==
  /\ pc = "fetching"
  /\ ~ResponseFails
  /\ \E host \in [HostParsedDates(ResponseDocs, Get(targetDate)) -> HostParseOutcomes] :
       /\ Fetched(host)
       /\ WorkflowBranch(shows', auto, stdinIsTTY, stdoutIsTTY) = "noShows"
  /\ outcome' = "noShows"
  /\ pc' = "done"
  /\ UNCHANGED <<inputs, targetDate, selectedGroup, openTarget, openPromise, openError,
                 errorEmitted, closeEmitted, closeCode, fetchCalls, datePrompts,
                 showPrompts, openCalls, exitCode, failure, cancelledAt>>

\* the fetch answers and the run is automatic: shows[0] is opened
FetchedAuto ==
  /\ pc = "fetching"
  /\ ~ResponseFails
  /\ \E host \in [HostParsedDates(ResponseDocs, Get(targetDate)) -> HostParseOutcomes] :
       /\ Fetched(host)
       /\ WorkflowBranch(shows', auto, stdinIsTTY, stdoutIsTTY) = "auto"
       /\ OpenShow(AutoSelection(shows', groupedShows'))
  /\ UNCHANGED <<inputs, targetDate, selectedGroup, errorEmitted, closeEmitted,
                 closeCode, fetchCalls, datePrompts, showPrompts, exitCode,
                 outcome, failure, cancelledAt>>

\* the fetch answers and the run is interactive: the date prompt is shown
FetchedPrompt ==
  /\ pc = "fetching"
  /\ ~ResponseFails
  /\ \E host \in [HostParsedDates(ResponseDocs, Get(targetDate)) -> HostParseOutcomes] :
       /\ Fetched(host)
       /\ WorkflowBranch(shows', auto, stdinIsTTY, stdoutIsTTY) = "prompt"
  /\ datePrompts' = datePrompts + 1
  /\ pc' = "promptDate"
  /\ UNCHANGED <<inputs, targetDate, selectedGroup, openTarget, openPromise, openError,
                 errorEmitted, closeEmitted, closeCode, fetchCalls, showPrompts,
                 openCalls, exitCode, outcome, failure, cancelledAt>>

\* the date prompt is answered
AnswerDatePrompt ==
  /\ pc = "promptDate"
  /\ \E choice \in DateChoices(groupedShows) :
       LET group == promptForDateSelection(groupedShows, choice)
       IN /\ cancelledAt' = IF choice = CancelToken THEN "date" ELSE cancelledAt
          /\ IF IsSome(group)
             THEN /\ selectedGroup' = group
                  /\ showPrompts' = showPrompts + 1
                  /\ pc' = "promptShow"
                  /\ UNCHANGED outcome
             ELSE /\ outcome' = "noSelection"
                  /\ pc' = "done"
                  /\ UNCHANGED <<selectedGroup, showPrompts>>
  /\ UNCHANGED <<inputs, targetDate, shows, groupedShows, openTarget,
                 openPromise, openError, errorEmitted, closeEmitted, closeCode, fetchCalls,
                 groupCalls, datePrompts, openCalls, exitCode, failure>>

\* the recording prompt is answered
AnswerShowPrompt ==
  /\ pc = "promptShow"
  /\ \E choice \in ShowChoices(Get(selectedGroup)) :
       LET show == promptForShowSelection(Get(selectedGroup), choice)
       IN /\ cancelledAt' = IF choice = CancelToken THEN "show" ELSE cancelledAt
          /\ IF IsSome(show)
             THEN /\ OpenShow(Get(show))
                  /\ UNCHANGED outcome
             ELSE /\ outcome' = "noSelection"
                  /\ pc' = "done"
                  /\ UNCHANGED <<openTarget, openCalls, openPromise,
                                 openError>>
  /\ UNCHANGED <<inputs, targetDate, shows, groupedShows, selectedGroup,
                 errorEmitted, closeEmitted, closeCode, fetchCalls, groupCalls,
                 datePrompts, showPrompts, exitCode, failure>>

\* inquirer.prompt rejects
PromptRejects ==
  /\ pc \in {"promptDate", "promptShow"}
  /\ Throw("prompt")
  /\ UNCHANGED <<inputs, targetDate, shows, groupedShows, selectedGroup,
                 openTarget, openPromise, openError, errorEmitted, closeEmitted, closeCode,
                 fetchCalls, groupCalls, datePrompts, showPrompts, openCalls,
                 cancelledAt>>

\* resolve() or reject(reason) of the promise of openShowInBrowser: the first
\* call settles it and openShow and the workflow go on; a later call does
\* nothing
SettleOpen(resolved, reason) ==
  IF openPromise # "pending"
  THEN UNCHANGED <<openPromise, openError, pc, exitCode, outcome, failure>>
  ELSE IF resolved
  THEN /\ openPromise' = "resolved"
       /\ outcome' = "opened"
       /\ pc' = "done"
       /\ UNCHANGED <<openError, exitCode, failure>>
  ELSE /\ openPromise' = "rejected"
       /\ openError' = reason
       /\ Throw("open")

\* the child emits "error": the launcher could not be spawned
ChildError ==
  /\ openCalls > 0
  /\ ~errorEmitted
  /\ ~closeEmitted
  /\ errorEmitted' = TRUE
  /\ SettleOpen(FALSE, SpawnError)
  /\ UNCHANGED <<inputs, targetDate, shows, groupedShows, selectedGroup,
                 openTarget, closeEmitted, closeCode, fetchCalls, groupCalls,
                 datePrompts, showPrompts, openCalls, cancelledAt>>

\* the child emits "close" with a code
ChildClose ==
  /\ openCalls > 0
  /\ ~closeEmitted
  /\ closeEmitted' = TRUE
  /\ \E code \in CloseCodes(errorEmitted) :
       /\ closeCode' = code
       /\ SettleOpen(CloseResolves(code, LauncherCommand(platform)), ExitError(code))
  /\ UNCHANGED <<inputs, targetDate, shows, groupedShows, selectedGroup,
                 openTarget, errorEmitted, fetchCalls, groupCalls,
                 datePrompts, showPrompts, openCalls, cancelledAt>>

Next ==
  \/ ShowsCommand
  \/ TodayCommand
  \/ FetchFails
  \/ FetchedNoShows
  \/ FetchedAuto
  \/ FetchedPrompt
  \/ AnswerDatePrompt
  \/ AnswerShowPrompt
  \/ PromptRejects
  \/ ChildError
  \/ ChildClose

\* the workflow over docs that differ in date, rating and title
Spec == Init /\ [][Next]_vars

\* the workflow over longer docs arrays, for the grouping and the ranking; here
\* and below both streams are terminals and the platform is linux
InitGroups == InitWith(WorkflowDocs, MaxGroupDocs, FewDateArgs, {"linux"}, {TRUE})
SpecGroups == InitGroups /\ [][Next]_vars

\* the workflow over docs that differ in their raw date
InitDates == InitWith(DateDocs, MaxDateDocs, DateArgs, {"linux"}, {TRUE})
SpecDates == InitDates /\ [][Next]_vars

\* the workflow over docs that differ in identifier, title and source
InitTypes == InitWith(TypeDocs, MaxTypeDocs, OneDateArg, {"linux"}, {TRUE})
SpecTypes == InitTypes /\ [][Next]_vars

\* the workflow over docs that differ in avg_rating and num_reviews
InitRatings == InitWith(RatingDocs, MaxRatingDocs, OneDateArg, {"linux"}, {TRUE})
SpecRatings == InitRatings /\ [][Next]_vars

----------------------------------------------------------------------------
(* The claims *)

\* the month and day that the fetch is for, as -MM-DD
RequestedSuffix ==
  DateSuffix(toMonthDay(Get(targetDate)).month, toMonthDay(Get(targetDate)).day)

\* C1: every Recording that getShowsForDate returns has a normalized date
\* that ends with the requested -MM-DD; no record whose date does not end with
\* it is in the output
C1_DateFilterExactness ==
  groupCalls > 0 =>
    \A i \in 1..Len(shows) : EndsWith(shows[i].date, RequestedSuffix)

\* C7: the date of every Recording that getShowsForDate returns is a valid
\* YYYY-MM-DD calendar date or the "Unknown date" sentinel, never a raw or
\* partly parsed fragment
C7_DateValidOrSentinel ==
  \A i \in 1..Len(shows) :
    IsValidDateString(shows[i].date) \/ shows[i].date = UnknownDate

\* the texts of a Recording that carry a marker of the given kind: its
\* identifier, title or source holds, in any case, the short form as a whole
\* word or the long form anywhere
HasMarker(show, short, long) ==
  \E text \in {show.identifier, show.title}
              \cup (IF IsSome(show.source) THEN {Get(show.source)} ELSE {}) :
    TestWord(ToLowerCase(text), short) \/ Includes(ToLowerCase(text), long)

HasMtx(show) == HasMarker(show, MarkerMtx, MarkerMatrix)
HasSbd(show) == HasMarker(show, MarkerSbd, MarkerSoundboard)
HasAud(show) == HasMarker(show, MarkerAud, MarkerAudience)

\* C6: the recording type follows the precedence MTX, SBD, AUD: a matrix
\* marker gives MTX even beside a soundboard marker, a soundboard marker
\* without a matrix marker gives SBD, an audience marker without the other two
\* gives AUD, and no marker gives no tag
C6_RecordingTypePrecedence ==
  \A i \in 1..Len(shows) :
    LET show == shows[i]
    IN /\ HasMtx(show) => show.recordingType = Some("MTX")
       /\ (~HasMtx(show) /\ HasSbd(show)) => show.recordingType = Some("SBD")
       /\ (~HasMtx(show) /\ ~HasSbd(show) /\ HasAud(show))
            => show.recordingType = Some("AUD")
       /\ (~HasMtx(show) /\ ~HasSbd(show) /\ ~HasAud(show))
            => show.recordingType = None

\* a fetched Recording with a matrix and a soundboard marker, tagged MTX
C6_Witness ==
  \E i \in 1..Len(shows) :
    /\ HasMtx(shows[i])
    /\ HasSbd(shows[i])
    /\ shows[i].recordingType = Some("MTX")

\* a Recording with a rating that ranks: present and finite
IsRated(show) == IsSome(show.avgRating) /\ IsFinite(Get(show.avgRating))

\* two Recordings that the rating does not tell apart
SameRating(a, b) ==
  \/ ~IsRated(a) /\ ~IsRated(b)
  \/ IsRated(a) /\ IsRated(b) /\ Get(a.avgRating).v = Get(b.avgRating).v

\* C4: within every date group the recordings are in descending order of
\* rating, the recordings without a finite rating after all rated ones, equal
\* ratings in ascending order of title; ranking the ranked group again
\* leaves the order as it is
C4_RankingOrder ==
  \A g \in 1..Len(groupedShows) :
    LET members == groupedShows[g].shows
    IN /\ \A i \in 1..Len(members) : \A j \in (i + 1)..Len(members) :
            LET a == members[i]
                b == members[j]
            IN /\ (IsRated(a) /\ IsRated(b)) => Get(a.avgRating).v >= Get(b.avgRating).v
               /\ IsRated(b) => IsRated(a)
               /\ SameRating(a, b) => LocaleCompare(a.title, b.title) <= 0
       /\ groupShowsByDate(members) = <<groupedShows[g]>>

\* a group of three, fetched in another order than its ranking, with a rated
\* and an unrated recording and two equally rated ones of different titles
C4_Witness ==
  \E g \in 1..Len(groupedShows) :
    LET members == groupedShows[g].shows
    IN /\ Len(members) = 3
       /\ Len(shows) = 3
       /\ members # shows
       /\ IsRated(members[1])
       /\ ~IsRated(members[3])
       /\ \E i \in 1..2 :
            /\ SameRating(members[i], members[i + 1])
            /\ members[i].title # members[i + 1].title

\* the number of times that x occurs in s
Occurrences(s, x) == Cardinality({i \in 1..Len(s) : s[i] = x})

\* the number of times that x occurs in the groups
GroupedOccurrences(groups, x) ==
  LET counts == [g \in 1..Len(groups) |-> Occurrences(groups[g].shows, x)]
      sum[n \in 0..Len(groups)] == IF n = 0 THEN 0 ELSE sum[n - 1] + counts[n]
  IN sum[Len(groups)]

\* C5: the groups partition the fetch result (every fetched Recording is in
\* the groups as often as in the fetch result, and nothing else is), every
\* member has the date of its group, no two groups have the same date, and
\* the groups are in ascending order of date
C5_GroupingPartition ==
  /\ \A i \in 1..Len(shows) :
       GroupedOccurrences(groupedShows, shows[i]) = Occurrences(shows, shows[i])
  /\ \A g \in 1..Len(groupedShows) :
       /\ groupedShows[g].shows # <<>>
       /\ \A i \in 1..Len(groupedShows[g].shows) :
            /\ groupedShows[g].shows[i].date = groupedShows[g].date
            /\ Occurrences(shows, groupedShows[g].shows[i]) > 0
  /\ \A g \in 1..Len(groupedShows) : \A h \in (g + 1)..Len(groupedShows) :
       /\ groupedShows[g].date # groupedShows[h].date
       /\ LocaleCompare(groupedShows[g].date, groupedShows[h].date) < 0

\* three fetched Recordings of two dates, the later date fetched first, one
\* Recording fetched twice
C5_Witness ==
  /\ Len(shows) = 3
  /\ Len(groupedShows) = 2
  /\ shows[1].date # groupedShows[1].date
  /\ \E i \in 1..3 : Occurrences(shows, shows[i]) = 2

\* the run does not prompt: the auto flag, or a stream that is no terminal
NonInteractive == auto \/ ~stdinIsTTY \/ ~stdoutIsTTY

C3_AutoOpensTopRated ==
  (auto /\ IsSome(openTarget)) =>
    \A i \in 1..Len(shows) :
      shows[i].date = Get(openTarget).date =>
        ~NumLess(SortRating(Get(openTarget)), SortRating(shows[i]))

\* C8: when the fetch returns an empty list the workflow reports that there
\* are no shows and ends: no prompt, no browser opened, no failure exit code,
\* whatever the auto flag and the terminals are
C8_EmptyFetchEndsQuietly ==
  (groupCalls > 0 /\ shows = <<>>) =>
    /\ pc = "done"
    /\ outcome = "noShows"
    /\ datePrompts = 0
    /\ showPrompts = 0
    /\ openCalls = 0
    /\ exitCode = 0
    /\ failure = "none"

\* an interactive run whose upstream docs are all of another day
C8_Witness ==
  /\ groupCalls > 0
  /\ shows = <<>>
  /\ ResponseDocs # <<>>
  /\ ~NonInteractive
  /\ outcome = "noShows"

\* the run has failed: the date argument was refused, the archive did not
\* answer with a result, a prompt was rejected or the browser was not opened
RunFailed ==
  \/ command = "shows" /\ pc # "idle" /\ ~parseDateArgument(dateArg).ok
  \/ fetchCalls > 0 /\ pc # "fetching" /\ ResponseFails
  \/ failure = "prompt"
  \/ openPromise = "rejected"

\* C9: a failure is all or nothing: a refused date argument comes before any
\* network call; a failed fetch is followed by no grouping, no prompt and no
\* browser; a failed browser open ends the run; the fetch and the browser open
\* are tried at most once; the exit code is non-zero exactly for failed runs
C9_FailureAllOrNothing ==
  /\ fetchCalls <= 1
  /\ openCalls <= 1
  /\ (command = "shows" /\ ~parseDateArgument(dateArg).ok) =>
       fetchCalls = 0 /\ groupCalls = 0 /\ datePrompts = 0 /\ showPrompts = 0
       /\ openCalls = 0
  /\ (fetchCalls > 0 /\ pc # "fetching" /\ ResponseFails) =>
       pc = "done" /\ groupCalls = 0 /\ datePrompts = 0 /\ showPrompts = 0
       /\ openCalls = 0
  /\ openPromise = "rejected" => pc = "done" /\ outcome = "error"
  /\ RunFailed => pc = "done" /\ exitCode # 0
  /\ exitCode # 0 => RunFailed

\* a run whose browser launcher fails, after one fetch and one spawn
C9_Witness ==
  /\ openPromise = "rejected"
  /\ fetchCalls = 1
  /\ openCalls = 1
  /\ exitCode # 0
  /\ pc = "done"

\* C10: Cancel at the date prompt or at the recording prompt ends the
\* workflow without a selection: no browser is opened, no error is raised, the
\* exit code is not set; after Cancel at the date prompt the recording prompt
\* is never shown
C10_CancelEndsWithoutSelection ==
  /\ cancelledAt # "none" =>
       /\ pc = "done"
       /\ outcome = "noSelection"
       /\ openCalls = 0
       /\ openTarget = None
       /\ exitCode = 0
       /\ failure = "none"
  /\ cancelledAt = "date" => showPrompts = 0 /\ selectedGroup = None
  /\ cancelledAt = "show" => showPrompts = 1

\* Cancel chosen at the recording prompt of a group that was chosen
C10_Witness ==
  /\ cancelledAt = "show"
  /\ IsSome(selectedGroup)
  /\ pc = "done"

\* the platform whose launcher is fire-and-forget
ExemptedPlatform == platform = "win32"

\* C11: the promise of openShowInBrowser resolves when the launcher closes
\* with exit code 0, and on the exempted platform also when it closes with
\* another code; on every other platform another code rejects with an error
\* that carries that code; a spawn-level error rejects with that error; the
\* promise is settled once, by the first of the error and close events, and a
\* close event that follows an error event changes nothing
C11_OpenSettledOnceByFirstEvent ==
  /\ openCalls = 0 => openPromise = "none"
  /\ (openCalls > 0 /\ ~errorEmitted /\ ~closeEmitted) =>
       openPromise = "pending" /\ openError = NoError
  /\ errorEmitted =>
       openPromise = "rejected" /\ openError = SpawnError
  /\ (closeEmitted /\ ~errorEmitted /\ closeCode = Some(0)) =>
       openPromise = "resolved" /\ openError = NoError
  /\ (closeEmitted /\ ~errorEmitted /\ closeCode # Some(0) /\ ExemptedPlatform) =>
       openPromise = "resolved" /\ openError = NoError
  /\ (closeEmitted /\ ~errorEmitted /\ closeCode # Some(0) /\ ~ExemptedPlatform) =>
       /\ openPromise = "rejected"
       /\ openError.kind = "exit"
       /\ openError.code = closeCode
  /\ openPromise = "resolved" => outcome = "opened" /\ exitCode = 0
  /\ openPromise = "rejected" => outcome = "error" /\ failure = "open"

\* the launcher of the exempted platform closes with a code that is not 0
\* after it was spawned without error, and the promise is resolved
C11_Witness ==
  /\ ExemptedPlatform
  /\ openCalls = 1
  /\ closeEmitted
  /\ ~errorEmitted
  /\ closeCode = Some(3)
  /\ openPromise = "resolved"

\* a close event follows the error event of a failed spawn
C11_CloseAfterError ==
  /\ errorEmitted
  /\ closeEmitted
  /\ openPromise = "rejected"
  /\ openError = SpawnError

\* a launcher of another platform closes with a code that is not 0
C11_RejectedWithCode ==
  /\ ~ExemptedPlatform
  /\ closeEmitted
  /\ ~errorEmitted
  /\ closeCode = Some(3)
  /\ openError = ExitError(Some(3))

\* the upstream records that pass the filter of the fetch, in their order:
\* shows[i] is mapped from KeptDocs[i]
KeptDocs ==
  LET md == toMonthDay(Get(targetDate))
      Keep(doc) == KeepsDoc(doc, md.month, md.day)
  IN SelectSeq(ResponseDocs, Keep)

\* a field parsed leniently: absent when the parse failed (not a number),
\* the parsed number otherwise
LenientField(parsed, field) ==
  IF parsed = NaN THEN field = None ELSE field = Some(parsed)

\* C12: both numeric fields of a mapped record are parsed leniently: an
\* avg_rating or num_reviews that fails to parse as a number leaves avgRating
\* or numRatings absent, never zero and never not-a-number, and one that
\* parses is kept as that number
C12_NumericFieldsLenient ==
  groupCalls > 0 =>
    /\ Len(shows) = Len(KeptDocs)
    /\ \A i \in 1..Len(shows) :
         /\ IsSome(KeptDocs[i].avg_rating) =>
              LenientField(ParseFloat(Get(KeptDocs[i].avg_rating)), shows[i].avgRating)
         /\ IsSome(KeptDocs[i].num_reviews) =>
              LenientField(ParseInt(Get(KeptDocs[i].num_reviews)), shows[i].numRatings)

====
